---- MODULE Spec2Model ----
(***************************************************************************)
(* Promise helpers of lively.lang (src/promise.js): chain, timeout and     *)
(* waitFor, modelled on a single-threaded event loop.  A promise is a      *)
(* record [st, val]; a reaction registered with then/catch runs as a       *)
(* separate job (microtask) after the promise has settled; a timer becomes *)
(* due between tasks, when the job queue is empty, and its callback may    *)
(* then run before or after reactions queued in the same tick.             *)
(***************************************************************************)
EXTENDS Integers, Sequences, FiniteSets

\* ------------------------------------------------------------------ bounds
MaxSteps == 3        \* longest step list handed to chain
NChains == 2         \* chain invocations on the same step list
NTimeouts == 2       \* concurrent timeout(ms, p) calls
MaxScript == 3       \* tester invocations whose outcome the caller's tester varies
MaxCalls == 3        \* tester invocations before the deadline, and after it
MaxCleanups == 2     \* invocations of finallyFn whose outcome the caller's function varies
MaxAdapterCalls == 2 \* calls of the function convertCallbackFun returned
MaxResults == 2      \* result arguments handed to the completion callback
MaxCompletions == 2  \* times one call's completion callback is called
NDeferred == 2       \* handles made by deferred()
MaxSettleCalls == 3  \* resolve/reject calls on one handle
NDelays == 3         \* delay / delayReject calls

\* --------------------------------------------------------------- JS values
Undef == [t |-> "undefined"]
Null == [t |-> "null"]
NaN == [t |-> "NaN"]
Absent == [t |-> "absent"]
Num(n) == [t |-> "number", n |-> n]
Bool(b) == [t |-> "boolean", b |-> b]
Str(s) == [t |-> "string", s |-> s]
Err(m) == [t |-> "error", m |-> m]
Obj(o) == [t |-> "object", f |-> o]
Arr(items) == [t |-> "array", items |-> items]

\* the object literal {} : no property set
EmptyObj == [a |-> Absent, total |-> Absent]

\* prev + 1 as JavaScript computes it
Plus1(v) ==
  IF v.t = "number" THEN Num(v.n + 1)
  ELSE IF v.t \in {"undefined", "NaN"} THEN NaN
  ELSE IF v.t = "null" THEN Num(1)
  ELSE Str("concat")

\* ----------------------------------------------------------------- promises
NoPromise == [st |-> "none", val |-> Undef]
Pending == [st |-> "pending", val |-> Undef]
Fulfilled(v) == [st |-> "fulfilled", val |-> v]
Rejected(e) == [st |-> "rejected", val |-> e]

\* resolve(v) / reject(e) of a promise's executor: only the first call settles
Resolve(p, v) == IF p.st = "pending" THEN Fulfilled(v) ELSE p
Reject(p, e) == IF p.st = "pending" THEN Rejected(e) ELSE p

VARIABLES
  \* ---- chain
  arrays,        \* heap of step lists: arrays[0] is the caller's, arrays[c] chain c's copy
  objects,       \* heap of state objects: objects[c] is the {} chain c allocates
  promiseFuncs,  \* promiseFuncs[c]: the list chain c's executor shifts from (a heap index)
  akku,          \* akku[c]: the state object chain c passes to its steps (a heap index)
  chainP,        \* chainP[c]: the promise chain c returned
  stepP,         \* stepP[c]: Promise.resolve(next(prevResult, akku)) of the running step
  job,           \* job[c]: the reaction of chain c waiting in the job queue
  log,           \* log[c]: history of chain c's step invocations
  outcome,       \* outcome[c]: history of how the invoked steps settled
  steps0         \* the caller's step list as it was handed over

VARIABLES
  \* ---- timeout
  tmIn,          \* tmIn[t]: the promise handed to timeout call t
  tmDone,        \* tmDone[t]: the `done` flag of call t
  tmTimer,       \* tmTimer[t]: the setTimeout of call t: scheduled, due, fired
  tmJob,         \* tmJob[t]: the reaction of tmIn[t] waiting in the job queue
  tmOut,         \* tmOut[t]: the promise call t returned
  tmFirst,       \* tmFirst[t]: history, which of the two callbacks ran first
  tmEarly,       \* tmEarly[t]: history, the input settled before the deadline
  tmAtFire       \* tmAtFire[t]: history, the input's state when the timer callback ran

VARIABLES
  \* ---- waitFor
  wfP,           \* the promise waitFor returned
  wfMs,          \* typeof ms after the argument shuffle: "number" or "undefined"
  stopped,       \* var stopped
  error,         \* var error
  value,         \* var value
  wfInterval,    \* the setInterval i: none, active, cleared
  wfTimer,       \* the deadline setTimeout: none, scheduled, fired
  script,        \* the caller's tester: the outcomes of its first invocations
  calls,         \* history: how often tester has been invoked
  callsAtDeadline, \* history: calls when the deadline callback ran
  lastCall       \* history: outcome of the latest tester invocation

VARIABLES
  \* ---- finally
  fnIn,          \* the promise handed to promise_finally
  fnP2,          \* the promise .then(...) returned
  fnOut,         \* the promise .catch(...) returned: promise_finally's result
  fnJob,         \* the reaction waiting in the job queue
  cleanup,       \* the caller's finallyFn: the outcomes of its invocations
  cleanupLog,    \* history: per invocation of finallyFn, the states of fnIn and fnOut
  logged         \* history: what console.error was given

VARIABLES
  \* ---- convertCallbackFun / convertCallbackFunWithManyArgs
  adKind,        \* which converter made the adapted function: none, single, many
  adCalls,       \* history: how often the adapted function has been called
  fnCalls,       \* history: how often func has been invoked
  adArgs,        \* adArgs[k]: history, the arguments of the k-th call
  fnArgs,        \* fnArgs[k]: history, the arguments func got in the k-th call
  adP,           \* adP[k]: the promise the k-th call returned
  adFirst,       \* adFirst[k]: history, what happened first: a completion or a throw
  adDone         \* adDone[k]: history, how often the completion callback was called

VARIABLES
  \* ---- deferred
  dfP,           \* dfP[h]: the promise of handle h
  dfFirst,       \* dfFirst[h]: history, the first resolve/reject call on handle h
  dfCalls        \* dfCalls[h]: history, how many resolve/reject calls handle h got

VARIABLES
  \* ---- delay / delayReject
  dlKind,        \* dlKind[d]: which function call d was: none, delay, delayReject
  dlVal,         \* dlVal[d]: the resolveVal / rejectVal of call d
  dlTimer,       \* dlTimer[d]: the setTimeout of call d: none, scheduled, fired
  dlP            \* dlP[d]: the promise call d returned

chainVars == <<arrays, objects, promiseFuncs, akku, chainP, stepP, job, log, outcome, steps0>>
timeoutVars == <<tmIn, tmDone, tmTimer, tmJob, tmOut, tmFirst, tmEarly, tmAtFire>>

waitVars == <<wfP, wfMs, stopped, error, value, wfInterval, wfTimer, script, calls,
              callsAtDeadline, lastCall>>

finallyVars == <<fnIn, fnP2, fnOut, fnJob, cleanup, cleanupLog, logged>>

adapterVars == <<adKind, adCalls, fnCalls, adArgs, fnArgs, adP, adFirst, adDone>>

deferredVars == <<dfP, dfFirst, dfCalls>>
delayVars == <<dlKind, dlVal, dlTimer, dlP>>

\* the components added after chain, timeout and waitFor
restVars == <<finallyVars, adapterVars, deferredVars, delayVars>>

vars == <<chainVars, timeoutVars, waitVars, restVars>>

Chains == 1..NChains

\* ------------------------------------------------------- chain: the steps
\* Entries a caller puts in the step list; "null" is a falsy entry.
StepKinds == {"one", "setA", "total", "later", "throw", "fail", "null"}

StepLists == UNION {[1..n -> StepKinds] : n \in 0..MaxSteps}

\* What calling the step does: it returns a value, throws, or returns a
\* promise that settles later (will); obj is the state object afterwards.
Invoke(fn, prev, obj) ==
  CASE fn = "one"   -> [how |-> "return", val |-> Num(1), will |-> NoPromise, obj |-> obj]
    [] fn = "setA"  -> [how |-> "return", val |-> Plus1(prev), will |-> NoPromise,
                        obj |-> [obj EXCEPT !.a = prev]]
    [] fn = "total" -> [how |-> "return", val |-> Obj([obj EXCEPT !.total = prev]),
                        will |-> NoPromise, obj |-> obj]
    [] fn = "later" -> [how |-> "promise", val |-> Undef, will |-> Fulfilled(Num(23)), obj |-> obj]
    [] fn = "throw" -> [how |-> "throw", val |-> Err("x"), will |-> NoPromise, obj |-> obj]
    [] fn = "fail"  -> [how |-> "promise", val |-> Undef, will |-> Rejected(Err("y")), obj |-> obj]
    \* calling what is not a function throws a TypeError inside the try
    [] fn = "null"  -> [how |-> "throw", val |-> Err("TypeError"), will |-> NoPromise, obj |-> obj]

\* `!next`
FalsyOnlyUndefined(entry) == entry = "undefined"
Falsy(entry) == entry \in {"null", "undefined"}

\* promiseFuncs.shift(): the removed head (undefined on an empty list) and the rest
Shift(q) == [next |-> IF q = <<>> THEN "undefined" ELSE Head(q),
             rest |-> IF q = <<>> THEN <<>> ELSE Tail(q)]

\* The reaction that enters the job queue for the step's promise:
\* .then(result => ...) once it has fulfilled, the rejection passing through
\* .then to .catch once it has rejected, nothing while it is pending.
ReactionEager(p) ==
  IF p.st \in {"fulfilled", "pending"} THEN "then"
  ELSE IF p.st = "rejected" THEN "pass" ELSE "none"
Reaction(p) ==
  IF p.st = "fulfilled" THEN "then"
  ELSE IF p.st = "rejected" THEN "pass" ELSE "none"

\* The value the recursion hands on as prevResult: the fulfilment value
NextPrevStale(prevResult, result) == prevResult
NextPrev(prevResult, result) == result

\* catch (err) { reject(err); }
OnThrowIgnore(p, err) == p
OnThrow(p, err) == Reject(p, err)

\* _chainResolveNext(promiseFuncs, prevResult, akku, resolve, reject), run by
\* chain c on the heaps A (lists) and O (objects), CP the promises chain returned
ChainResolveNext(c, pf, ak, A, O, CP, prevResult) ==
  LET sh == Shift(A[pf])
      pos == Len(steps0) - Len(A[pf]) + 1
      r == Invoke(sh.next, prevResult, O[ak])
  IN /\ arrays' = [A EXCEPT ![pf] = sh.rest]
     /\ IF Falsy(sh.next)
        THEN /\ chainP' = [CP EXCEPT ![c] = Resolve(@, prevResult)]
             /\ objects' = O
             /\ stepP' = [stepP EXCEPT ![c] = NoPromise]
             /\ job' = [job EXCEPT ![c] = "none"]
             /\ UNCHANGED <<log, outcome>>
        ELSE /\ log' = [log EXCEPT ![c] = Append(@,
                          [pos |-> pos, fn |-> sh.next, prev |-> prevResult,
                           ak |-> ak, seen |-> O[ak]])]
             /\ objects' = [O EXCEPT ![ak] = r.obj]
             /\ CASE r.how = "return" ->
                       /\ stepP' = [stepP EXCEPT ![c] = Fulfilled(r.val)]
                       /\ job' = [job EXCEPT ![c] = Reaction(Fulfilled(r.val))]
                       /\ outcome' = [outcome EXCEPT ![c] = Append(@, Fulfilled(r.val))]
                       /\ chainP' = CP
                  [] r.how = "promise" ->
                       /\ stepP' = [stepP EXCEPT ![c] = [st |-> "pending", val |-> Undef, will |-> r.will]]
                       /\ job' = [job EXCEPT ![c] = Reaction(Pending)]
                       /\ chainP' = CP
                       /\ UNCHANGED outcome
                  [] r.how = "throw" ->
                       /\ chainP' = [CP EXCEPT ![c] = OnThrow(@, r.val)]
                       /\ stepP' = [stepP EXCEPT ![c] = NoPromise]
                       /\ job' = [job EXCEPT ![c] = "none"]
                       /\ outcome' = [outcome EXCEPT ![c] = Append(@, [st |-> "threw", val |-> r.val])]

\* promiseFuncs.slice(): chain c's executor works on a copy of the caller's list
SliceShared(c) == 0
Slice(c) == c

\* the {} of chain c
FreshObj(c) == c

\* chain(promiseFuncs): the executor runs synchronously, first step included
Chain(c) ==
  /\ chainP[c].st = "none"
  /\ LET pf == Slice(c)
         ak == FreshObj(c)
         A == [arrays EXCEPT ![pf] = arrays[0]]
         O == [objects EXCEPT ![ak] = IF ak = c THEN EmptyObj ELSE @]
     IN /\ promiseFuncs' = [promiseFuncs EXCEPT ![c] = pf]
        /\ akku' = [akku EXCEPT ![c] = ak]
        /\ ChainResolveNext(c, pf, ak, A, O, [chainP EXCEPT ![c] = Pending], Undef)
  /\ UNCHANGED <<steps0, timeoutVars, waitVars, restVars>>

\* the promise a step returned settles (fulfils or rejects, as the step decided)
StepSettle(c) ==
  /\ stepP[c].st = "pending"
  /\ stepP' = [stepP EXCEPT ![c] = [st |-> @.will.st, val |-> @.will.val]]
  /\ job' = [job EXCEPT ![c] = Reaction(stepP[c].will)]
  /\ outcome' = [outcome EXCEPT ![c] = Append(@, stepP[c].will)]
  /\ UNCHANGED <<arrays, objects, promiseFuncs, akku, chainP, log, steps0, timeoutVars, waitVars, restVars>>

\* .then(result => _chainResolveNext(promiseFuncs, result, akku, resolve, reject))
ThenJob(c) ==
  /\ job[c] = "then"
  /\ ChainResolveNext(c, promiseFuncs[c], akku[c], arrays, objects, chainP,
                      NextPrev(IF log[c] = <<>> THEN Undef ELSE log[c][Len(log[c])].prev,
                               stepP[c].val))
  /\ UNCHANGED <<promiseFuncs, akku, steps0, timeoutVars, waitVars, restVars>>

\* the rejection of the step's promise passes through .then(...) to .catch(...)
PassJob(c) ==
  /\ job[c] = "pass"
  /\ job' = [job EXCEPT ![c] = "catch"]
  /\ UNCHANGED <<arrays, objects, promiseFuncs, akku, chainP, stepP, log, outcome, steps0, timeoutVars, waitVars, restVars>>

\* .catch(function(err) { reject(err); })
CatchJob(c) ==
  /\ job[c] = "catch"
  /\ job' = [job EXCEPT ![c] = "none"]
  /\ chainP' = [chainP EXCEPT ![c] = Reject(@, stepP[c].val)]
  /\ UNCHANGED <<arrays, objects, promiseFuncs, akku, stepP, log, outcome, steps0, timeoutVars, waitVars, restVars>>

StartChain ==
  /\ steps0 \in StepLists
  /\ arrays = [i \in 0..NChains |-> IF i = 0 THEN steps0 ELSE <<>>]
  /\ objects = [i \in 0..NChains |-> EmptyObj]
  /\ promiseFuncs = [c \in Chains |-> 0]
  /\ akku = [c \in Chains |-> 0]
  /\ chainP = [c \in Chains |-> NoPromise]
  /\ stepP = [c \in Chains |-> NoPromise]
  /\ job = [c \in Chains |-> "none"]
  /\ log = [c \in Chains |-> <<>>]
  /\ outcome = [c \in Chains |-> <<>>]

\* no chain is ever started
IdleChain ==
  /\ steps0 = <<>>
  /\ arrays = [i \in 0..NChains |-> <<>>]
  /\ objects = [i \in 0..NChains |-> EmptyObj]
  /\ promiseFuncs = [c \in Chains |-> 0]
  /\ akku = [c \in Chains |-> 0]
  /\ chainP = [c \in Chains |-> NoPromise]
  /\ stepP = [c \in Chains |-> NoPromise]
  /\ job = [c \in Chains |-> "none"]
  /\ log = [c \in Chains |-> <<>>]
  /\ outcome = [c \in Chains |-> <<>>]

NextChain ==
  \E c \in Chains : Chain(c) \/ StepSettle(c) \/ ThenJob(c) \/ PassJob(c) \/ CatchJob(c)

\* ------------------------------------------------------------------ timeout
Timeouts == 1..NTimeouts

\* new Error('Promise timed out')
TimeoutError == Err("Promise timed out")

\* what the promise handed to timeout can be, or become
InputValues == {Str("early"), Undef}
InputErrors == {Err("late")}
SettledInputs == {Fulfilled(v) : v \in InputValues} \cup {Rejected(e) : e \in InputErrors}

\* promise.then(onFulfilled, onRejected): the reaction queued once the input has settled
InputReaction(p) ==
  IF p.st = "fulfilled" THEN "onFulfilled"
  ELSE IF p.st = "rejected" THEN "onRejected" ELSE "none"

\* () => !done && (done = true) && reject(new Error('Promise timed out'))
OnTimerSilent(done, out) == [done |-> TRUE, out |-> out]
OnTimer(done, out) ==
  IF ~done THEN [done |-> TRUE, out |-> Reject(out, TimeoutError)]
  ELSE [done |-> done, out |-> out]

\* val => !done && (done = true) && resolve(val)
OnValue(done, out, val) ==
  IF ~done THEN [done |-> TRUE, out |-> Resolve(out, val)]
  ELSE [done |-> done, out |-> out]

\* err => !done && (done = true) && reject(err)
OnErrorResolves(done, out, err) ==
  IF ~done THEN [done |-> TRUE, out |-> Resolve(out, err)]
  ELSE [done |-> done, out |-> out]
OnError(done, out, err) ==
  IF ~done THEN [done |-> TRUE, out |-> Reject(out, err)]
  ELSE [done |-> done, out |-> out]

\* timeout(ms, promise): the executor sets the timer and registers on the input,
\* which is pending or already settled
Timeout(t) ==
  /\ tmOut[t].st = "none"
  /\ \E p \in {Pending} \cup SettledInputs :
       /\ tmIn' = [tmIn EXCEPT ![t] = p]
       /\ tmJob' = [tmJob EXCEPT ![t] = InputReaction(p)]
       /\ tmEarly' = [tmEarly EXCEPT ![t] = p.st # "pending"]
  /\ tmDone' = [tmDone EXCEPT ![t] = FALSE]
  /\ tmTimer' = [tmTimer EXCEPT ![t] = "scheduled"]
  /\ tmOut' = [tmOut EXCEPT ![t] = Pending]
  /\ UNCHANGED <<tmFirst, tmAtFire, chainVars, waitVars, restVars>>

\* the input promise settles (its owner's doing); its reaction is queued
InputSettle(t) ==
  /\ tmIn[t].st = "pending"
  /\ \E p \in SettledInputs :
       /\ tmIn' = [tmIn EXCEPT ![t] = p]
       /\ tmJob' = [tmJob EXCEPT ![t] = InputReaction(p)]
  /\ tmEarly' = [tmEarly EXCEPT ![t] = tmTimer[t] = "scheduled"]
  /\ UNCHANGED <<tmDone, tmTimer, tmOut, tmFirst, tmAtFire, chainVars, waitVars, restVars>>

\* ms milliseconds have passed: the timer callback is due.  Time passes
\* between tasks, when the job queue has been drained.
TimerDue(t) ==
  /\ tmTimer[t] = "scheduled"
  /\ \A u \in Timeouts : tmJob[u] = "none"
  /\ tmTimer' = [tmTimer EXCEPT ![t] = "due"]
  /\ UNCHANGED <<tmIn, tmDone, tmJob, tmOut, tmFirst, tmEarly, tmAtFire, chainVars, waitVars, restVars>>

\* the timer callback runs
TimerFire(t) ==
  /\ tmTimer[t] = "due"
  /\ LET r == OnTimer(tmDone[t], tmOut[t])
     IN /\ tmDone' = [tmDone EXCEPT ![t] = r.done]
        /\ tmOut' = [tmOut EXCEPT ![t] = r.out]
  /\ tmTimer' = [tmTimer EXCEPT ![t] = "fired"]
  /\ tmFirst' = [tmFirst EXCEPT ![t] = IF @ = "none" THEN "timer" ELSE @]
  /\ tmAtFire' = [tmAtFire EXCEPT ![t] = tmIn[t].st]
  /\ UNCHANGED <<tmIn, tmJob, tmEarly, chainVars, waitVars, restVars>>

\* the reaction registered on the input runs
InputJob(t) ==
  /\ tmJob[t] # "none"
  /\ LET r == IF tmJob[t] = "onFulfilled"
              THEN OnValue(tmDone[t], tmOut[t], tmIn[t].val)
              ELSE OnError(tmDone[t], tmOut[t], tmIn[t].val)
     IN /\ tmDone' = [tmDone EXCEPT ![t] = r.done]
        /\ tmOut' = [tmOut EXCEPT ![t] = r.out]
  /\ tmJob' = [tmJob EXCEPT ![t] = "none"]
  /\ tmFirst' = [tmFirst EXCEPT ![t] = IF @ = "none" THEN "input" ELSE @]
  /\ UNCHANGED <<tmIn, tmTimer, tmEarly, tmAtFire, chainVars, waitVars, restVars>>

\* no timeout is ever called
IdleTimeout ==
  /\ tmIn = [t \in Timeouts |-> NoPromise]
  /\ tmDone = [t \in Timeouts |-> FALSE]
  /\ tmTimer = [t \in Timeouts |-> "none"]
  /\ tmJob = [t \in Timeouts |-> "none"]
  /\ tmOut = [t \in Timeouts |-> NoPromise]
  /\ tmFirst = [t \in Timeouts |-> "none"]
  /\ tmEarly = [t \in Timeouts |-> FALSE]
  /\ tmAtFire = [t \in Timeouts |-> "none"]

NextTimeout ==
  \E t \in Timeouts :
    Timeout(t) \/ InputSettle(t) \/ TimerDue(t) \/ TimerFire(t) \/ InputJob(t)

\* ------------------------------------------------------------------ waitFor
\* what one invocation of the caller's tester does: return a value or throw one
TesterOutcomes ==
  {[how |-> "return", val |-> v] : v \in {Bool(FALSE), Undef, Num(42), Bool(TRUE)}}
  \cup {[how |-> "throw", val |-> e] : e \in {Err("boom"), Null}}

Scripts == UNION {[1..n -> TesterOutcomes] : n \in 0..MaxScript}

\* the n-th invocation of tester; after its script it keeps returning false
Tester(n) == IF n <= Len(script) THEN script[n] ELSE [how |-> "return", val |-> Bool(FALSE)]

\* JavaScript's ToBoolean
Truthy(v) ==
  CASE v.t \in {"undefined", "null", "NaN", "absent"} -> FALSE
    [] v.t = "boolean" -> v.b
    [] v.t = "number" -> v.n # 0
    [] v.t = "string" -> v.s # ""
    [] OTHER -> TRUE

\* new Error('timeout')
WaitTimeoutError == Err("timeout")

\* function() { error = new Error('timeout'); }
OnDeadlineNothing(err) == err
OnDeadline(err) == WaitTimeoutError

\* waitFor(ms, tester) / waitFor(tester): the executor starts the interval
\* and, when ms is a number, the deadline timer
WaitFor ==
  /\ wfP.st = "none"
  /\ \E ms \in {"number", "undefined"} :
       /\ wfMs' = ms
       /\ wfTimer' = IF ms = "number" THEN "scheduled" ELSE "none"
  /\ wfP' = Pending
  /\ stopped' = FALSE
  /\ error' = Null
  /\ value' = Undef
  /\ wfInterval' = "active"
  /\ UNCHANGED <<script, calls, callsAtDeadline, lastCall, chainVars, timeoutVars, restVars>>

\* stopped = true; clearInterval(i);
KeepPolling == [stopped |-> FALSE, interval |-> "active"]
StopPolling == [stopped |-> TRUE, interval |-> "cleared"]

\* the interval callback
Tick ==
  /\ wfInterval = "active"
  /\ calls < (IF wfTimer = "fired" THEN callsAtDeadline + MaxCalls ELSE MaxCalls)
  /\ IF stopped
     THEN /\ wfInterval' = "cleared"
          /\ UNCHANGED <<wfP, stopped, error, value, calls, lastCall>>
     ELSE LET o == Tester(calls + 1)
              v == IF o.how = "return" THEN o.val ELSE value
              e == IF o.how = "throw" THEN o.val ELSE error
          IN /\ calls' = calls + 1
             /\ lastCall' = [how |-> o.how, val |-> o.val, pending |-> wfP.st = "pending"]
             /\ value' = v
             /\ error' = e
             /\ IF Truthy(v) \/ Truthy(e)
                THEN /\ stopped' = StopPolling.stopped
                     /\ wfInterval' = StopPolling.interval
                     /\ wfP' = IF Truthy(e) THEN Reject(wfP, e) ELSE Resolve(wfP, v)
                ELSE UNCHANGED <<stopped, wfInterval, wfP>>
  /\ UNCHANGED <<wfMs, wfTimer, script, callsAtDeadline, chainVars, timeoutVars, restVars>>

\* the deadline callback
Deadline ==
  /\ wfTimer = "scheduled"
  /\ wfTimer' = "fired"
  /\ error' = OnDeadline(error)
  /\ callsAtDeadline' = calls
  /\ UNCHANGED <<wfP, wfMs, stopped, value, wfInterval, script, calls, lastCall,
                 chainVars, timeoutVars, restVars>>

\* waitFor has not been called; the tester is s
StartWaitFor(s) ==
  /\ script = s
  /\ wfP = NoPromise
  /\ wfMs = "undefined"
  /\ stopped = FALSE
  /\ error = Null
  /\ value = Undef
  /\ wfInterval = "none"
  /\ wfTimer = "none"
  /\ calls = 0
  /\ callsAtDeadline = 0
  /\ lastCall = [how |-> "none", val |-> Undef, pending |-> FALSE]

NextWaitFor == WaitFor \/ Tick \/ Deadline

\* ------------------------------------------------------------------ finally
notFinallyVars == <<adapterVars, deferredVars, delayVars>>

\* what one invocation of the caller's finallyFn does
CleanupOutcomes ==
  {[how |-> "return", val |-> Undef]}
  \cup {[how |-> "throw", val |-> e] : e \in {Err("cleanup"), Null}}

CleanupScripts == [1..MaxCleanups -> CleanupOutcomes]

\* the n-th invocation of finallyFn; after its script it returns normally
Cleanup(n) == IF n <= Len(cleanup) THEN cleanup[n] ELSE [how |-> "return", val |-> Undef]

\* what promise_finally can be handed, settled: a value counts as a fulfilled promise
FinallyInputs ==
  {Fulfilled(v) : v \in {Num(5), Undef}} \cup {Rejected(e) : e \in {Err("err"), Null}}

\* reading a property of null or undefined throws
TypeError == Err("TypeError")

\* try { finallyFn(); } catch(err) { console.error("Error in promise finally: " + err.stack || err); }
\* o is what finallyFn() did: reading err.stack throws when err is null or undefined
Guarded(o) ==
  IF o.how = "throw" /\ o.val.t \in {"null", "undefined"}
  THEN [how |-> "throw", val |-> TypeError, logged |-> <<>>]
  ELSE IF o.how = "throw"
  THEN [how |-> "return", val |-> Undef, logged |-> <<o.val>>]
  ELSE [how |-> "return", val |-> Undef, logged |-> <<>>]

\* result => { try ... ; return result; } : how the promise of .then settles
ThenHandler(result, o) ==
  IF Guarded(o).how = "throw" THEN Rejected(Guarded(o).val) ELSE Fulfilled(result)

\* err => { try ... ; throw err; } : how the promise of .catch settles
CatchHandler(err, o) ==
  IF Guarded(o).how = "throw" THEN Rejected(Guarded(o).val) ELSE Rejected(err)

\* Promise.resolve(promise).then(...).catch(...): the reaction queued for a settled promise
FinallyReaction1(p) ==
  IF p.st = "fulfilled" THEN "then" ELSE IF p.st = "rejected" THEN "pass1" ELSE "none"
FinallyReaction2(p) ==
  IF p.st = "fulfilled" THEN "pass2" ELSE IF p.st = "rejected" THEN "catch" ELSE "none"

\* promise_finally(promise, finallyFn), the input pending or settled
Finally ==
  /\ fnOut.st = "none"
  /\ \E p \in {Pending} \cup FinallyInputs :
       /\ fnIn' = p
       /\ fnJob' = FinallyReaction1(p)
  /\ fnP2' = Pending
  /\ fnOut' = Pending
  /\ UNCHANGED <<cleanup, cleanupLog, logged, chainVars, timeoutVars, waitVars, notFinallyVars>>

\* the input promise settles
FinallyInputSettle ==
  /\ fnIn.st = "pending"
  /\ \E p \in FinallyInputs :
       /\ fnIn' = p
       /\ fnJob' = FinallyReaction1(p)
  /\ UNCHANGED <<fnP2, fnOut, cleanup, cleanupLog, logged, chainVars, timeoutVars, waitVars, notFinallyVars>>

\* the fulfilment handler given to .then runs
FinallyThenJob ==
  /\ fnJob = "then"
  /\ LET o == Cleanup(Len(cleanupLog) + 1)
         p2 == ThenHandler(fnIn.val, o)
     IN /\ cleanupLog' = Append(cleanupLog, [in |-> fnIn.st, out |-> fnOut.st])
        /\ logged' = logged \o Guarded(o).logged
        /\ fnP2' = p2
        /\ fnJob' = FinallyReaction2(p2)
  /\ UNCHANGED <<fnIn, fnOut, cleanup, chainVars, timeoutVars, waitVars, notFinallyVars>>

\* a rejection of the input passes through .then
FinallyPassThen ==
  /\ fnJob = "pass1"
  /\ fnP2' = Rejected(fnIn.val)
  /\ fnJob' = FinallyReaction2(Rejected(fnIn.val))
  /\ UNCHANGED <<fnIn, fnOut, cleanup, cleanupLog, logged, chainVars, timeoutVars, waitVars, notFinallyVars>>

\* the rejection handler given to .catch runs
FinallyCatchJob ==
  /\ fnJob = "catch"
  /\ LET o == Cleanup(Len(cleanupLog) + 1)
     IN /\ cleanupLog' = Append(cleanupLog, [in |-> fnIn.st, out |-> fnOut.st])
        /\ logged' = logged \o Guarded(o).logged
        /\ fnOut' = CatchHandler(fnP2.val, o)
  /\ fnJob' = "none"
  /\ UNCHANGED <<fnIn, fnP2, cleanup, chainVars, timeoutVars, waitVars, notFinallyVars>>

\* a fulfilment of .then's promise passes through .catch
FinallyPassCatch ==
  /\ fnJob = "pass2"
  /\ fnOut' = Fulfilled(fnP2.val)
  /\ fnJob' = "none"
  /\ UNCHANGED <<fnIn, fnP2, cleanup, cleanupLog, logged, chainVars, timeoutVars, waitVars, notFinallyVars>>

\* promise_finally has not been called; finallyFn is f
StartFinally(f) ==
  /\ cleanup = f
  /\ fnIn = NoPromise
  /\ fnP2 = NoPromise
  /\ fnOut = NoPromise
  /\ fnJob = "none"
  /\ cleanupLog = <<>>
  /\ logged = <<>>

NextFinally ==
  \/ Finally \/ FinallyInputSettle \/ FinallyThenJob
  \/ FinallyPassThen \/ FinallyCatchJob \/ FinallyPassCatch

\* ------------------------- convertCallbackFun, convertCallbackFunWithManyArgs
notAdapterVars == <<finallyVars, deferredVars, delayVars>>

\* the completion callback as an argument of func
Callback == [t |-> "function", name |-> "completion"]

\* the arguments a caller gives the adapted function
CallArgs == {<<>>, <<Num(3), Str("utf8")>>}

\* what func hands the completion callback: an error argument and results
ErrorArgs == {Null, Err("bad")}
ResultArgs == {[i \in 1..n |-> Num(i)] : n \in 0..MaxResults}
Completions == {[err |-> e, results |-> r] : e \in ErrorArgs, r \in ResultArgs}

\* what func may throw
Thrown == {Err("boom"), Null}

NoEvent == [type |-> "none"]

\* what func does before it returns: nothing, call the completion callback,
\* throw, or call the completion callback and then throw
SyncRuns ==
  {<<>>} \cup {<<[do |-> "throw", val |-> e]>> : e \in Thrown}
         \cup {<<[do |-> "complete", err |-> c.err, results |-> c.results]>> : c \in Completions}
         \cup {<<[do |-> "complete", err |-> c.err, results |-> c.results],
                 [do |-> "throw", val |-> e]>> : c \in Completions, e \in {Err("boom")}}

\* args.push(function(err, result) {...}); func.apply(self, args)
FuncArgs(args) == Append(args, Callback)

\* function(err, result) { return err ? reject(err) : resolve(result); }
CompleteSingleLast(p, err, results) ==
  IF Truthy(err) THEN Reject(p, err)
  ELSE Resolve(p, IF results = <<>> THEN Undef ELSE results[Len(results)])
CompleteSingle(p, err, results) ==
  IF Truthy(err) THEN Reject(p, err)
  ELSE Resolve(p, IF results = <<>> THEN Undef ELSE results[1])

\* function() { var args = Array.from(arguments), err = args.shift();
\*              return err ? reject(err) : resolve(args); }
CompleteMany(p, err, results) ==
  IF Truthy(err) THEN Reject(p, err) ELSE Resolve(p, Arr(results))

\* the completion callback of an adapted function made by converter kind
Complete(kind, p, err, results) ==
  IF kind = "single" THEN CompleteSingle(p, err, results)
  ELSE CompleteMany(p, err, results)

\* a throw of func inside new Promise(function(resolve, reject) {...}) rejects the promise
ExecutorThrow(p, e) == Reject(p, e)

\* invocations of func after a converter has returned the adapted function
ConvertInvokesOnce(n) == n + 1
ConvertInvokes(n) == n

\* convertCallbackFun(func) / convertCallbackFunWithManyArgs(func)
Convert ==
  /\ adKind = "none"
  /\ adKind' \in {"single", "many"}
  /\ fnCalls' = ConvertInvokes(fnCalls)
  /\ UNCHANGED <<adCalls, adArgs, fnArgs, adP, adFirst, adDone,
                 chainVars, timeoutVars, waitVars, notAdapterVars>>

\* promiseGenerator(args): func is invoked in the promise's executor; before
\* it returns it may call the completion callback, and it may throw
Call ==
  /\ adKind # "none"
  /\ adCalls < MaxAdapterCalls
  /\ adCalls' = adCalls + 1
  /\ fnCalls' = fnCalls + 1
  /\ \E args \in CallArgs :
       /\ adArgs' = Append(adArgs, args)
       /\ fnArgs' = Append(fnArgs, FuncArgs(args))
  /\ \E run \in SyncRuns :
       LET completes == run # <<>> /\ run[1].do = "complete"
           throws == run # <<>> /\ run[Len(run)].do = "throw"
           p1 == IF completes
                 THEN Complete(adKind, Pending, run[1].err, run[1].results) ELSE Pending
           p2 == IF throws THEN ExecutorThrow(p1, run[Len(run)].val) ELSE p1
       IN /\ adP' = Append(adP, p2)
          /\ adDone' = Append(adDone, IF completes THEN 1 ELSE 0)
          /\ adFirst' = Append(adFirst,
               IF completes
               THEN [type |-> "completion", err |-> run[1].err, results |-> run[1].results]
               ELSE IF throws THEN [type |-> "throw", val |-> run[1].val]
               ELSE NoEvent)
  /\ UNCHANGED <<adKind, chainVars, timeoutVars, waitVars, notAdapterVars>>

\* func, or whoever it gave the completion callback to, calls it
Completion(k) ==
  /\ k \in 1..adCalls
  /\ adDone[k] < MaxCompletions
  /\ \E c \in Completions :
       /\ adP' = [adP EXCEPT ![k] = Complete(adKind, @, c.err, c.results)]
       /\ adFirst' = [adFirst EXCEPT ![k] =
            IF @ = NoEvent
            THEN [type |-> "completion", err |-> c.err, results |-> c.results] ELSE @]
  /\ adDone' = [adDone EXCEPT ![k] = @ + 1]
  /\ UNCHANGED <<adKind, adCalls, fnCalls, adArgs, fnArgs,
                 chainVars, timeoutVars, waitVars, notAdapterVars>>

\* no converter has been called
IdleAdapter ==
  /\ adKind = "none"
  /\ adCalls = 0
  /\ fnCalls = 0
  /\ adArgs = <<>>
  /\ fnArgs = <<>>
  /\ adP = <<>>
  /\ adFirst = <<>>
  /\ adDone = <<>>

NextAdapter == Convert \/ Call \/ \E k \in 1..MaxAdapterCalls : Completion(k)

\* ----------------------------------------------------------------- deferred
notDeferredVars == <<finallyVars, adapterVars, delayVars>>

Handles == 1..NDeferred

\* what a holder of the handle passes to resolve and to reject
SettleValues == {Num(1), Undef}
SettleErrors == {Err("e"), Null}

\* the handle's resolve and reject are the promise's own _resolve and _reject
HandleResolveOver(p, x) == Fulfilled(x)
HandleResolve(p, x) == Resolve(p, x)
HandleReject(p, e) == Reject(p, e)

\* deferred(): a pending promise and its two settlement functions
Deferred(h) ==
  /\ dfP[h].st = "none"
  /\ dfP' = [dfP EXCEPT ![h] = Pending]
  /\ UNCHANGED <<dfFirst, dfCalls, chainVars, timeoutVars, waitVars, notDeferredVars>>

\* handle.resolve(x)
DeferredResolve(h) ==
  /\ dfP[h].st # "none"
  /\ dfCalls[h] < MaxSettleCalls
  /\ \E x \in SettleValues :
       /\ dfP' = [dfP EXCEPT ![h] = HandleResolve(@, x)]
       /\ dfFirst' = [dfFirst EXCEPT ![h] =
            IF @ = NoEvent THEN [type |-> "resolve", val |-> x] ELSE @]
  /\ dfCalls' = [dfCalls EXCEPT ![h] = @ + 1]
  /\ UNCHANGED <<chainVars, timeoutVars, waitVars, notDeferredVars>>

\* handle.reject(e)
DeferredReject(h) ==
  /\ dfP[h].st # "none"
  /\ dfCalls[h] < MaxSettleCalls
  /\ \E e \in SettleErrors :
       /\ dfP' = [dfP EXCEPT ![h] = HandleReject(@, e)]
       /\ dfFirst' = [dfFirst EXCEPT ![h] =
            IF @ = NoEvent THEN [type |-> "reject", val |-> e] ELSE @]
  /\ dfCalls' = [dfCalls EXCEPT ![h] = @ + 1]
  /\ UNCHANGED <<chainVars, timeoutVars, waitVars, notDeferredVars>>

\* deferred() has not been called
IdleDeferred ==
  /\ dfP = [h \in Handles |-> NoPromise]
  /\ dfFirst = [h \in Handles |-> NoEvent]
  /\ dfCalls = [h \in Handles |-> 0]

NextDeferred == \E h \in Handles : Deferred(h) \/ DeferredResolve(h) \/ DeferredReject(h)

\* ------------------------------------------------------- delay, delayReject
notDelayVars == <<finallyVars, adapterVars, deferredVars>>

Delays == 1..NDelays

\* the resolveVal of delay and the rejectVal of delayReject
DelayValues == {Str("a"), Undef}
DelayErrors == {Str("e"), Err("late")}

\* new Promise(resolve => setTimeout(resolve, ms, resolveVal)): nothing settles
\* the promise in the executor
DelayPromiseEager(v) == Fulfilled(v)
DelayPromise(v) == Pending

\* the timer calls resolve(resolveVal) / reject(rejectVal)
DelayTimer(kind, p, v) == IF kind = "delay" THEN Resolve(p, v) ELSE Reject(p, v)

\* delay(ms, resolveVal)
Delay(d) ==
  /\ dlKind[d] = "none"
  /\ dlKind' = [dlKind EXCEPT ![d] = "delay"]
  /\ \E v \in DelayValues :
       /\ dlVal' = [dlVal EXCEPT ![d] = v]
       /\ dlP' = [dlP EXCEPT ![d] = DelayPromise(v)]
  /\ dlTimer' = [dlTimer EXCEPT ![d] = "scheduled"]
  /\ UNCHANGED <<chainVars, timeoutVars, waitVars, notDelayVars>>

\* delayReject(ms, rejectVal)
DelayReject(d) ==
  /\ dlKind[d] = "none"
  /\ dlKind' = [dlKind EXCEPT ![d] = "delayReject"]
  /\ \E e \in DelayErrors :
       /\ dlVal' = [dlVal EXCEPT ![d] = e]
       /\ dlP' = [dlP EXCEPT ![d] = Pending]
  /\ dlTimer' = [dlTimer EXCEPT ![d] = "scheduled"]
  /\ UNCHANGED <<chainVars, timeoutVars, waitVars, notDelayVars>>

\* ms milliseconds later the timer callback runs
DelayFire(d) ==
  /\ dlTimer[d] = "scheduled"
  /\ dlTimer' = [dlTimer EXCEPT ![d] = "fired"]
  /\ dlP' = [dlP EXCEPT ![d] = DelayTimer(dlKind[d], @, dlVal[d])]
  /\ UNCHANGED <<dlKind, dlVal, chainVars, timeoutVars, waitVars, notDelayVars>>

\* neither delay nor delayReject has been called
IdleDelay ==
  /\ dlKind = [d \in Delays |-> "none"]
  /\ dlVal = [d \in Delays |-> Undef]
  /\ dlTimer = [d \in Delays |-> "none"]
  /\ dlP = [d \in Delays |-> NoPromise]

NextDelay == \E d \in Delays : Delay(d) \/ DelayReject(d) \/ DelayFire(d)

\* none of the components added after waitFor is used
IdleRest == StartFinally(<<>>) /\ IdleAdapter /\ IdleDeferred /\ IdleDelay

\* ----------------------------------------------------------- specifications
InitChain == StartChain /\ IdleTimeout /\ StartWaitFor(<<>>) /\ IdleRest

SpecChain == InitChain /\ [][NextChain]_vars

InitTimeout == IdleChain /\ IdleTimeout /\ StartWaitFor(<<>>) /\ IdleRest

SpecTimeout == InitTimeout /\ [][NextTimeout]_vars

\* timers that are due fire, and queued reactions run
FairSpecTimeout ==
  SpecTimeout
  /\ \A t \in Timeouts :
       WF_vars(TimerDue(t)) /\ WF_vars(TimerFire(t)) /\ WF_vars(InputJob(t))

InitWaitFor == IdleChain /\ IdleTimeout /\ IdleRest /\ \E s \in Scripts : StartWaitFor(s)

SpecWaitFor == InitWaitFor /\ [][NextWaitFor]_vars

\* the interval keeps ticking until it is cleared, and the deadline timer fires
FairSpecWaitFor == SpecWaitFor /\ WF_vars(Tick) /\ WF_vars(Deadline)

InitFinally ==
  /\ IdleChain /\ IdleTimeout /\ StartWaitFor(<<>>)
  /\ IdleAdapter /\ IdleDeferred /\ IdleDelay
  /\ \E f \in CleanupScripts : StartFinally(f)

SpecFinally == InitFinally /\ [][NextFinally]_vars

InitAdapter == IdleChain /\ IdleTimeout /\ StartWaitFor(<<>>) /\ IdleRest

SpecAdapter == InitAdapter /\ [][NextAdapter]_vars

InitDeferred == IdleChain /\ IdleTimeout /\ StartWaitFor(<<>>) /\ IdleRest

SpecDeferred == InitDeferred /\ [][NextDeferred]_vars

InitDelay == IdleChain /\ IdleTimeout /\ StartWaitFor(<<>>) /\ IdleRest

SpecDelay == InitDelay /\ [][NextDelay]_vars

\* ================================================================= claims
\* ---- helpers over the history of chain c
Called(c) == chainP[c].st # "none"
Failed(o) == o.st \in {"threw", "rejected"}
NoFalsyEntry == \A i \in 1..Len(steps0) : ~Falsy(steps0[i])
LastValue(c) == IF outcome[c] = <<>> THEN Undef ELSE outcome[c][Len(outcome[c])].val
AllFulfilled(c) ==
  /\ Len(outcome[c]) = Len(steps0)
  /\ \A k \in 1..Len(outcome[c]) : outcome[c][k].st = "fulfilled"

\* C1: once a step of a chain has failed (thrown when invoked, or returned a
\* promise that rejected), that step is the last one the chain ever invoked,
\* the chain's promise is never fulfilled, and it is rejected with exactly the
\* step's error: at once for a throw, and for a rejection as soon as the
\* queued reaction (.then pass-through, then .catch) has run.
C1_FailureStopsChain ==
  \A c \in Chains : \A k \in 1..Len(outcome[c]) :
    Failed(outcome[c][k]) =>
      /\ Len(log[c]) = k
      /\ \A j \in 1..Len(log[c]) : log[c][j].pos <= log[c][k].pos
      /\ chainP[c].st # "fulfilled"
      /\ outcome[c][k].st = "threw" => chainP[c] = Rejected(outcome[c][k].val)
      /\ outcome[c][k].st = "rejected" =>
           \/ chainP[c] = Rejected(outcome[c][k].val)
           \/ chainP[c].st = "pending" /\ job[c] \in {"pass", "catch"}

\* a chain rejected with its step's error while a later step was never invoked
C1_Witness ==
  \E c \in Chains :
    /\ NoFalsyEntry
    /\ chainP[c].st = "rejected"
    /\ chainP[c] = Rejected(Err("y"))
    /\ Len(log[c]) < Len(steps0)
    /\ job[c] = "none"

\* C2: the steps of one chain are invoked one at a time in list order: the
\* k-th invocation is of the entry at position k, no position is invoked
\* twice, a step is invoked only after the one before it has fulfilled, and
\* at most one invoked step has not settled yet.
C2_Sequential ==
  \A c \in Chains :
    /\ Len(log[c]) - Len(outcome[c]) \in {0, 1}
    /\ \A k \in 1..Len(log[c]) :
         /\ log[c][k].pos \in 1..Len(steps0)
         /\ log[c][k].fn = steps0[log[c][k].pos]
         /\ \A j \in 1..(k - 1) : log[c][j].pos < log[c][k].pos
         /\ k > 1 => Len(outcome[c]) >= k - 1 /\ outcome[c][k - 1].st = "fulfilled"

\* a third step is running after two steps that returned promises
C2_Witness ==
  \E c \in Chains :
    /\ Len(log[c]) = 3
    /\ Len(outcome[c]) = 2
    /\ log[c][1].fn = "later"
    /\ log[c][2].fn = "later"
    /\ stepP[c].st = "pending"

\* C3: the first step gets previousResult = undefined, every later step the
\* fulfilment value of the step before it, all steps of a chain the same
\* state object; when every step of the list has fulfilled the chain's
\* promise fulfils with the last step's value (undefined for an empty list),
\* and the list (() => 1, s.a = prev; prev + 1, {...s, total: prev}) gives
\* {a: 1, total: 2}.
C3_Threading ==
  \A c \in Chains :
    /\ \A k \in 1..Len(log[c]) :
         /\ log[c][k].ak = log[c][1].ak
         /\ k = 1 => log[c][k].prev = Undef
         /\ k > 1 => /\ Len(outcome[c]) >= k - 1
                     /\ log[c][k].prev = outcome[c][k - 1].val
    /\ (Called(c) /\ AllFulfilled(c)) =>
         \/ chainP[c] = Fulfilled(LastValue(c))
         \/ chainP[c].st = "pending" /\ job[c] = "then"
    /\ (steps0 = <<"one", "setA", "total">> /\ chainP[c].st = "fulfilled") =>
         chainP[c].val = Obj([a |-> Num(1), total |-> Num(2)])

\* the three-step example has fulfilled
C3_Witness ==
  \E c \in Chains :
    /\ steps0 = <<"one", "setA", "total">>
    /\ chainP[c] = Fulfilled(Obj([a |-> Num(1), total |-> Num(2)]))

\* C4: the caller's step list is never changed; every chain invocation runs
\* the entries of that list from its first position on, whatever the other
\* invocation has consumed; and the state object a step sees holds exactly
\* the writes of the earlier steps of its own invocation, on an object no
\* other invocation uses.
C4_Independent ==
  /\ arrays[0] = steps0
  /\ \A c \in Chains :
       /\ \A k \in 1..Len(log[c]) :
            /\ log[c][k].pos = k
            /\ log[c][k].fn = steps0[k]
            /\ k = 1 => log[c][k].seen = EmptyObj
            /\ k > 1 => log[c][k].seen =
                 Invoke(log[c][k - 1].fn, log[c][k - 1].prev, log[c][k - 1].seen).obj
            /\ \A d \in Chains \ {c} : Called(d) => log[c][k].ak # akku[d]
       /\ (chainP[c].st = "fulfilled" /\ NoFalsyEntry) => Len(log[c]) = Len(steps0)

\* two interleaved invocations on one list: the first has written its state
\* object, the second is running and its state object is still empty
C4_Witness ==
  /\ Called(1) /\ Called(2)
  /\ objects[akku[1]].a # Absent
  /\ stepP[1].st = "pending"
  /\ Len(log[2]) = 1
  /\ stepP[2].st = "pending"
  /\ objects[akku[2]] = EmptyObj

\* ---- helpers for timeout
Settled(p) == p.st \in {"fulfilled", "rejected"}

\* C5: of the timer callback and the input's reaction, the one that runs
\* first decides the returned promise: the timeout error ('Promise timed
\* out') if it is the timer, the input's own value or error if it is the
\* reaction; before either has run the promise is pending, and once settled
\* it never changes.
C5_FirstWins ==
  /\ [](\A t \in Timeouts :
          /\ tmFirst[t] = "none" => ~Settled(tmOut[t])
          /\ tmFirst[t] = "timer" => tmOut[t] = Rejected(TimeoutError)
          /\ tmFirst[t] = "input" => Settled(tmIn[t]) /\ tmOut[t] = tmIn[t])
  /\ [][\A t \in Timeouts : Settled(tmOut[t]) => tmOut'[t] = tmOut[t]]_vars

\* both callbacks of one call have run, the reaction of a rejected input
\* first, the timer second
C5_Witness ==
  \E t \in Timeouts :
    /\ tmFirst[t] = "input"
    /\ tmTimer[t] = "fired"
    /\ tmIn[t].st = "rejected"
    /\ tmAtFire[t] = "rejected"

\* C6: the promise timeout returned settles eventually (timers fire, queued
\* reactions run); when the input was still pending as the timer callback
\* ran it is rejected with the timeout error, and when the input fulfilled
\* before the deadline it is fulfilled with the input's value (as soon as
\* the queued reaction has run).
C6_Settles ==
  /\ \A t \in Timeouts : (tmOut[t].st = "pending") ~> Settled(tmOut[t])
  /\ [](\A t \in Timeouts :
          /\ tmAtFire[t] = "pending" => tmOut[t] = Rejected(TimeoutError)
          /\ (tmEarly[t] /\ tmIn[t].st = "fulfilled") =>
               \/ tmOut[t] = tmIn[t]
               \/ tmOut[t].st = "pending" /\ tmJob[t] = "onFulfilled")

\* the input never settled and the call was rejected by its timer
C6_Witness ==
  \E t \in Timeouts :
    /\ tmIn[t].st = "pending"
    /\ tmAtFire[t] = "pending"
    /\ tmOut[t] = Rejected(TimeoutError)

\* ---- helpers for waitFor
FalsyReturn(o) == o.how = "return" /\ ~Truthy(o.val)
\* the tester only ever returns falsy values
AllFalsy == \A i \in 1..Len(script) : FalsyReturn(script[i])
\* up to the deadline the tester had neither returned a truthy value nor thrown
QuietUntilDeadline == \A i \in 1..callsAtDeadline : FalsyReturn(Tester(i))

\* C7: when tester returns a truthy value v while the promise waitFor
\* returned is pending, that promise is fulfilled with v.
C7_TruthyFulfils ==
  (lastCall.how = "return" /\ Truthy(lastCall.val) /\ lastCall.pending) =>
    wfP = Fulfilled(lastCall.val)

\* C8: when tester throws e while the promise waitFor returned is pending,
\* that promise is rejected with e and the interval is cleared, whatever e is.
C8_ThrowRejects ==
  (lastCall.how = "throw" /\ lastCall.pending) =>
    wfP = Rejected(lastCall.val) /\ wfInterval = "cleared"

\* C9: the promise of waitFor(ms, tester) is rejected with the timeout error
\* only after the deadline callback has run, and with a tester that returns
\* nothing but falsy values it is eventually rejected with that error.
C9_DeadlineRejects ==
  /\ [](wfP = Rejected(WaitTimeoutError) => wfTimer = "fired")
  /\ (wfMs = "number" /\ AllFalsy) ~> (wfP = Rejected(WaitTimeoutError))

\* rejected by the deadline after two invocations of a tester that never
\* returned anything truthy
C9_Witness ==
  /\ wfMs = "number"
  /\ AllFalsy
  /\ calls >= 2
  /\ wfP = Rejected(WaitTimeoutError)

\* C10: once the deadline callback has run with tester having neither
\* returned a truthy value nor thrown, tester is not invoked again and the
\* promise is not fulfilled.
C10_StopsAtDeadline ==
  (wfTimer = "fired" /\ QuietUntilDeadline) =>
    calls = callsAtDeadline /\ wfP.st # "fulfilled"

\* C11: once the promise waitFor returned has settled, tester is not invoked
\* again: the number of its invocations stays what it was.
C11_NoCallAfterSettle ==
  [][Settled(wfP) => calls' = calls]_vars

\* fulfilled with 42 at the third invocation, the interval cleared
C11_Witness ==
  /\ wfP = Fulfilled(Num(42))
  /\ calls = 3
  /\ wfInterval = "cleared"

\* C12: whenever the promise returned by timeout or waitFor has settled, no
\* timer of that call is still scheduled: timeout's timer, waitFor's
\* interval and waitFor's deadline timer have fired for the last time or
\* been cleared.
C12_NoTimerLeft ==
  /\ \A t \in Timeouts : Settled(tmOut[t]) => tmTimer[t] \notin {"scheduled", "due"}
  /\ Settled(wfP) => wfInterval # "active" /\ wfTimer # "scheduled"

\* C13: finallyFn is invoked exactly once per call of promise_finally: never
\* more than once, once by the time the returned promise has settled, and
\* each time with the input settled and the returned promise still pending.
C13_CleanupOnce ==
  /\ Len(cleanupLog) <= 1
  /\ Settled(fnOut) => Len(cleanupLog) = 1
  /\ \A k \in 1..Len(cleanupLog) :
       cleanupLog[k].in \in {"fulfilled", "rejected"} /\ cleanupLog[k].out = "pending"

\* C14: the promise promise_finally returned settles with the input's own
\* outcome, the same value or the same error, whatever finallyFn throws.
C14_OutcomeKept ==
  Settled(fnOut) => fnOut = fnIn

\* ---- helpers for the callback adapters
\* finallyFn invocations so far that threw
CleanupThrows == {k \in 1..Len(cleanupLog) : Cleanup(k).how = "throw"}

\* C15: a throw of a caller's function never escapes and becomes a rejection
\* with the thrown value: a chain step that threw has rejected its chain with
\* that value, a tester that threw while waitFor's promise was pending has
\* rejected it with that value, a func that threw before any completion has
\* rejected the adapted call with that value; a throw of finallyFn is logged
\* and leaves the outcome alone.
C15_ThrowsBecomeRejections ==
  /\ \A c \in Chains : \A k \in 1..Len(outcome[c]) :
       outcome[c][k].st = "threw" => chainP[c] = Rejected(outcome[c][k].val)
  /\ (lastCall.how = "throw" /\ lastCall.pending) => wfP = Rejected(lastCall.val)
  /\ \A k \in 1..adCalls :
       adFirst[k].type = "throw" => adP[k] = Rejected(adFirst[k].val)
  /\ Len(logged) = Cardinality(CleanupThrows)
  /\ (CleanupThrows # {} /\ Settled(fnOut)) => fnOut = fnIn

\* C16: func gets the call's arguments followed by the completion callback;
\* the first call of the completion callback settles the returned promise:
\* rejected with the error argument if that is truthy, otherwise fulfilled
\* with the first result argument (convertCallbackFun) or with the list of
\* all result arguments in order (convertCallbackFunWithManyArgs).
C16_Completion ==
  \A k \in 1..adCalls :
    /\ Len(fnArgs[k]) = Len(adArgs[k]) + 1
    /\ \A i \in 1..Len(adArgs[k]) : fnArgs[k][i] = adArgs[k][i]
    /\ fnArgs[k][Len(fnArgs[k])] = Callback
    /\ adFirst[k].type = "completion" =>
         IF Truthy(adFirst[k].err) THEN adP[k] = Rejected(adFirst[k].err)
         ELSE IF adKind = "single"
         THEN adP[k] = Fulfilled(IF adFirst[k].results = <<>> THEN Undef
                                 ELSE adFirst[k].results[1])
         ELSE adP[k] = Fulfilled(Arr(adFirst[k].results))

\* cb(null, 1, 2) gave [1, 2], and a later cb(error) changed nothing
C16_Witness ==
  /\ adKind = "many"
  /\ \E k \in 1..adCalls :
       /\ adP[k] = Fulfilled(Arr(<<Num(1), Num(2)>>))
       /\ adFirst[k].err = Null
       /\ adDone[k] = 2

\* C17: func has been invoked exactly as often as the adapted function has
\* been called: not at all when the converter returns, once per call after.
C17_OneInvocationPerCall ==
  /\ fnCalls = adCalls
  /\ Len(fnArgs) = adCalls

\* the adapted function has been called twice
C17_Witness ==
  /\ adKind = "single"
  /\ adCalls = 2
  /\ fnCalls = 2

\* C18: the promise of a deferred handle is pending until resolve or reject
\* is called; the first such call settles it, fulfilled with x for resolve(x)
\* and rejected with e for reject(e); no later call changes it.
C18_FirstSettleCallWins ==
  \A h \in Handles :
    /\ dfFirst[h] = NoEvent => dfP[h] \in {NoPromise, Pending}
    /\ dfFirst[h].type = "resolve" => dfP[h] = Fulfilled(dfFirst[h].val)
    /\ dfFirst[h].type = "reject" => dfP[h] = Rejected(dfFirst[h].val)

\* resolve(1) first, then two more settlement calls
C18_Witness ==
  \E h \in Handles :
    /\ dfFirst[h] = [type |-> "resolve", val |-> Num(1)]
    /\ dfCalls[h] = 3
    /\ dfP[h] = Fulfilled(Num(1))

\* C19: the promise of delay(ms, v) is pending while its timer is scheduled
\* and fulfilled with v once it has fired, and is never rejected; the promise
\* of delayReject(ms, e) is pending while its timer is scheduled and rejected
\* with e once it has fired.
C19_SettleAtTimer ==
  \A d \in Delays :
    /\ dlTimer[d] = "scheduled" => dlP[d] = Pending
    /\ (dlKind[d] = "delay" /\ dlTimer[d] = "fired") => dlP[d] = Fulfilled(dlVal[d])
    /\ dlKind[d] = "delay" => dlP[d].st # "rejected"
    /\ (dlKind[d] = "delayReject" /\ dlTimer[d] = "fired") => dlP[d] = Rejected(dlVal[d])

\* a delay has fulfilled, a delayReject has rejected, a third is still waiting
C19_Witness ==
  \E d1, d2, d3 \in Delays :
    /\ dlKind[d1] = "delay" /\ dlP[d1] = Fulfilled(Str("a"))
    /\ dlKind[d2] = "delayReject" /\ dlP[d2] = Rejected(Str("e"))
    /\ dlKind[d3] = "delay" /\ dlTimer[d3] = "scheduled"

\* ---- the positions of the caller's list that hold null, and the first of
\* them (Len + 1 when there is none)
NullAt == {k \in 1..Len(steps0) : steps0[k] = "null"}
FirstFalsy ==
  IF NullAt = {} THEN Len(steps0) + 1
  ELSE CHOOSE k \in NullAt : \A j \in NullAt : k <= j

\* C20: a falsy entry at position k ends the list: no entry at position k or
\* after it is ever invoked, the chain's promise is rejected only if an
\* invoked step failed, and once the steps before k have all fulfilled the
\* promise fulfils (after the queued .then reaction) with the value of the
\* step before k, undefined when k is the first position.
C20_FalsyEndsList ==
  \A c \in Chains :
    NullAt # {} =>
      /\ \A j \in 1..Len(log[c]) : log[c][j].pos < FirstFalsy
      /\ chainP[c].st = "rejected" =>
           \E j \in 1..Len(outcome[c]) : Failed(outcome[c][j])
      /\ (/\ Called(c)
          /\ Len(outcome[c]) = FirstFalsy - 1
          /\ \A j \in 1..Len(outcome[c]) : outcome[c][j].st = "fulfilled") =>
           \/ chainP[c] = Fulfilled(LastValue(c))
           \/ chainP[c].st = "pending" /\ job[c] = "then"

\* (() => 1, null, throwing step) has fulfilled with 1 after one invocation
C20_Witness ==
  \E c \in Chains :
    /\ steps0 = <<"one", "null", "throw">>
    /\ chainP[c] = Fulfilled(Num(1))
    /\ Len(log[c]) = 1
    /\ job[c] = "none"

====
